---------------------------- MODULE Spec2Model ----------------------------
(***************************************************************************)
(* A model of rust-phash-hasher (src/src/main.rs): the checkpoint file     *)
(* parser read_result, the work-set filter, the rayon workers, the bounded *)
(* channel, the collector thread that appends to the checkpoint file, and  *)
(* the median threshold that turns 64 coefficients into the hash.          *)
(*                                                                         *)
(* Bytes are integers 0..255.  A file, a line and a path are sequences of  *)
(* bytes.  A u64 is a sequence of four 16-bit limbs, most significant      *)
(* first, so that decimal parsing and printing are computed and the parse  *)
(* overflows exactly where u64 does.                                       *)
(***************************************************************************)
EXTENDS Integers, Sequences, FiniteSets, TLC

(***************************************************************************)
(* Bytes the code names.                                                   *)
(***************************************************************************)
TAB == 9
NL == 10
SP == 32
PLUS == 43
MINUS == 45
DOT == 46
SLASH == 47
DIGIT0 == 48
BAD == 255

\* char::is_whitespace (str::trim, line 122): the code points with the
\* property White_Space
IsWhitespace(c) ==
    \/ c \in 9..13
    \/ c \in {32, 133, 160, 5760}
    \/ c \in 8192..8202
    \/ c \in {8232, 8233, 8239, 8287, 12288}

IsDigit(c) == c >= DIGIT0 /\ c <= DIGIT0 + 9

MinOf(S) == CHOOSE x \in S : \A y \in S : x <= y
MaxOf(S) == CHOOSE x \in S : \A y \in S : x >= y

(***************************************************************************)
(* u64 as four 16-bit limbs, most significant first.                       *)
(***************************************************************************)
Limb == 2^16
U64Zero == <<0, 0, 0, 0>>
U64Max == <<65535, 65535, 65535, 65535>>

\* v * 10 + d with the carry out of the top limb: checked_mul(10), checked_add(d)
MulAdd10(v, d) ==
    LET t4 == v[4] * 10 + d
        t3 == v[3] * 10 + (t4 \div Limb)
        t2 == v[2] * 10 + (t3 \div Limb)
        t1 == v[1] * 10 + (t2 \div Limb)
    IN  [val |-> <<t1 % Limb, t2 % Limb, t3 % Limb, t4 % Limb>>,
         carry |-> t1 \div Limb]

\* v divided by 10: quotient and remainder (the digit loop of Display for u64)
DivMod10(v) ==
    LET c1 == v[1]
        c2 == (c1 % 10) * Limb + v[2]
        c3 == (c2 % 10) * Limb + v[3]
        c4 == (c3 % 10) * Limb + v[4]
    IN  [quot |-> <<c1 \div 10, c2 \div 10, c3 \div 10, c4 \div 10>>,
         rem |-> c4 % 10]

\* the digits of v, most significant first; the quotient is bound once for
\* each digit
RECURSIVE DigitsOf(_)
DigitsOf(v) ==
    IF v = U64Zero THEN <<>>
    ELSE CHOOSE ds \in {Append(DigitsOf(qr.quot), DIGIT0 + qr.rem) : qr \in {DivMod10(v)}} : TRUE

\* format!("{}", phash) for a u64 (line 61)
u64_to_string(v) == IF v = U64Zero THEN <<DIGIT0>> ELSE DigitsOf(v)

RECURSIVE ParseDigits(_, _, _)
ParseDigits(s, i, acc) ==
    IF i > Len(s) THEN [ok |-> TRUE, val |-> acc]
    ELSE IF ~IsDigit(s[i]) THEN [ok |-> FALSE, val |-> U64Zero]
    ELSE LET r == MulAdd10(acc, s[i] - DIGIT0)
         IN  IF r.carry # 0 THEN [ok |-> FALSE, val |-> U64Zero]
             ELSE ParseDigits(s, i + 1, r.val)

\* str::parse::<u64> (line 128): an optional '+', then one or more digits,
\* an error on the empty string, a lone sign, a non-digit or an overflow
parse_u64(s) ==
    IF Len(s) = 0 THEN [ok |-> FALSE, val |-> U64Zero]
    ELSE IF Len(s) = 1 /\ s[1] \in {PLUS, MINUS} THEN [ok |-> FALSE, val |-> U64Zero]
    ELSE IF s[1] = PLUS THEN ParseDigits(s, 2, U64Zero)
    ELSE ParseDigits(s, 1, U64Zero)

(***************************************************************************)
(* Strings.                                                                *)
(***************************************************************************)
\* a byte 10xxxxxx, which continues a character
IsCont(b) == b >= 128 /\ b < 192

\* the length of the character that starts with byte b
CharLen(b) == IF b < 128 THEN 1 ELSE IF b < 224 THEN 2 ELSE IF b < 240 THEN 3 ELSE 4

\* the code point of the character of s that starts at i (s is UTF-8)
CodePoint(s, i) ==
    IF s[i] < 128 THEN s[i]
    ELSE IF s[i] < 224 THEN (s[i] - 192) * 64 + (s[i + 1] - 128)
    ELSE IF s[i] < 240
         THEN (s[i] - 224) * 4096 + (s[i + 1] - 128) * 64 + (s[i + 2] - 128)
    ELSE (s[i] - 240) * 262144 + (s[i + 1] - 128) * 4096
            + (s[i + 2] - 128) * 64 + (s[i + 3] - 128)

\* str::trim (lines 88, 92, 122): the string without the white-space
\* characters at its two ends
trim(s) ==
    LET keep == {i \in 1..Len(s) : ~IsCont(s[i]) /\ ~IsWhitespace(CodePoint(s, i))}
    IN  IF keep = {} THEN <<>>
        ELSE SubSeq(s, MinOf(keep), MaxOf(keep) + CharLen(s[MaxOf(keep)]) - 1)

\* str::split(sep) collected (line 122): n separators give n + 1 parts
RECURSIVE split(_, _)
split(s, sep) ==
    IF \E i \in 1..Len(s) : s[i] = sep
    THEN LET i == MinOf({j \in 1..Len(s) : s[j] = sep})
         IN  <<SubSeq(s, 1, i - 1)>> \o split(SubSeq(s, i + 1, Len(s)), sep)
    ELSE <<s>>

\* Mutant: the check of line 56 never finds a delimiter
contains_nothing(s, c) == FALSE

\* str::contains(c) (line 56)
contains(s, c) == \E i \in 1..Len(s) : s[i] = c

\* BufRead::read_line from byte offset pos (line 111): the bytes up to and
\* including the next newline, or up to the end of the file
read_line(f, pos) ==
    LET nls == {i \in (pos + 1)..Len(f) : f[i] = NL}
    IN  IF nls = {} THEN SubSeq(f, pos + 1, Len(f)) ELSE SubSeq(f, pos + 1, MinOf(nls))

\* the bytes of s from i on are well-formed UTF-8 (core::str::from_utf8)
RECURSIVE Utf8From(_, _)
Utf8From(s, i) ==
    IF i > Len(s) THEN TRUE
    ELSE IF s[i] < 128 THEN Utf8From(s, i + 1)
    ELSE IF s[i] \in 194..223
         THEN i + 1 <= Len(s) /\ IsCont(s[i + 1]) /\ Utf8From(s, i + 2)
    ELSE IF s[i] \in 224..239
         THEN /\ i + 2 <= Len(s)
              /\ IsCont(s[i + 1])
              /\ s[i] = 224 => s[i + 1] >= 160
              /\ s[i] = 237 => s[i + 1] < 160
              /\ IsCont(s[i + 2])
              /\ Utf8From(s, i + 3)
    ELSE IF s[i] \in 240..244
         THEN /\ i + 3 <= Len(s)
              /\ IsCont(s[i + 1])
              /\ s[i] = 240 => s[i + 1] >= 144
              /\ s[i] = 244 => s[i + 1] < 144
              /\ IsCont(s[i + 2])
              /\ IsCont(s[i + 3])
              /\ Utf8From(s, i + 4)
    ELSE FALSE

\* read_line fails with InvalidData on a line that is not UTF-8
Utf8Valid(s) == Utf8From(s, 1)

(***************************************************************************)
(* PathBuf: two paths are equal when their components are (Unix).          *)
(***************************************************************************)
\* the parts of a path between its slashes that are components: not the
\* empty ones, and "." only as the first part of a path without a root
RECURSIVE normal_components(_, _, _)
normal_components(parts, i, has_root) ==
    IF i > Len(parts) THEN <<>>
    ELSE IF parts[i] = <<>> \/ (parts[i] = <<DOT>> /\ (i > 1 \/ has_root))
         THEN normal_components(parts, i + 1, has_root)
    ELSE <<parts[i]>> \o normal_components(parts, i + 1, has_root)

\* Path::components: the root, if the path starts with a slash, then the
\* components
components(p) ==
    IF Len(p) > 0 /\ p[1] = SLASH
    THEN <<<<SLASH>>>> \o normal_components(split(p, SLASH), 1, TRUE)
    ELSE normal_components(split(p, SLASH), 1, FALSE)

\* PartialEq for Path, which Hash for Path agrees with
path_eq(p, q) == components(p) = components(q)

(***************************************************************************)
(* HashMap<PathBuf, u64> as a function from paths to u64, and              *)
(* HashSet<PathBuf> as a set of paths; no two keys or elements are equal   *)
(* paths.                                                                  *)
(***************************************************************************)
EmptyMap == [p \in {} |-> U64Zero]

\* HashMap::contains_key (line 45)
contains_key(m, k) == \E p \in DOMAIN m : path_eq(p, k)

\* HashMap::insert (line 135): an insert of a key equal to one of the map
\* replaces its value and keeps the key the map has
insert(m, k, v) ==
    IF contains_key(m, k)
    THEN [p \in DOMAIN m |-> IF path_eq(p, k) THEN v ELSE m[p]]
    ELSE [p \in DOMAIN m \cup {k} |-> IF p = k THEN v ELSE m[p]]

\* collect::<HashSet<_>>() (line 45): of equal paths the first is kept
collect(s) ==
    {s[i] : i \in {j \in 1..Len(s) : \A h \in 1..(j - 1) : ~path_eq(s[h], s[j])}}

(***************************************************************************)
(* read_result (lines 100-144): the map and the offset the handle is left  *)
(* at.  The file itself is not written.                                    *)
(***************************************************************************)
RECURSIVE read_loop(_, _, _, _)
read_loop(f, pos, cache, valid_len) ==
    LET line == read_line(f, pos)
        stop == [cache |-> cache, valid_len |-> valid_len]
    IN  IF Len(line) = 0 \/ ~Utf8Valid(line) THEN stop
        ELSE IF line[Len(line)] # NL THEN stop
        ELSE LET raw == split(line, TAB)
                 parts == [i \in 1..Len(raw) |-> trim(raw[i])]
             IN  IF Len(parts) # 2 THEN stop
                 ELSE LET phash == parse_u64(parts[2])
                      IN  IF ~phash.ok THEN stop
                          ELSE read_loop(f, pos + Len(line),
                                         insert(cache, parts[1], phash.val),
                                         pos + Len(line))

\* Mutant: a line that does not parse is skipped and the scan goes on
RECURSIVE read_loop_skipping(_, _, _, _)
read_loop_skipping(f, pos, cache, valid_len) ==
    LET line == read_line(f, pos)
        stop == [cache |-> cache, valid_len |-> valid_len]
    IN  IF Len(line) = 0 \/ ~Utf8Valid(line) THEN stop
        ELSE IF line[Len(line)] # NL THEN stop
        ELSE LET raw == split(line, TAB)
                 parts == [i \in 1..Len(raw) |-> trim(raw[i])]
             IN  IF Len(parts) # 2 \/ ~parse_u64(parts[Len(parts)]).ok
                 THEN read_loop_skipping(f, pos + Len(line), cache, valid_len)
                 ELSE read_loop_skipping(f, pos + Len(line),
                                         insert(cache, parts[1], parse_u64(parts[2]).val),
                                         pos + Len(line))

read_result_skipping(f) == read_loop_skipping(f, 0, EmptyMap, 0)

\* Mutant: the seek of line 141 is missing, the handle stays at the end
read_result_no_seek(f) == [cache |-> read_loop(f, 0, EmptyMap, 0).cache, valid_len |-> Len(f)]

read_result(f) == read_loop(f, 0, EmptyMap, 0)

(***************************************************************************)
(* The environment: the images on disk and the candidate lines.            *)
(***************************************************************************)
PathA == <<97>>
PathB == <<98>>
PathE == <<101>>
PathT == <<97, TAB, 98>>
PathD == <<97, SLASH>>
PathS == <<DOT, SLASH, 98>>

(***************************************************************************)
(* The hash of an image (lines 172-190).  dct_vals is the Vec of the 64     *)
(* coefficients of the 8x8 view, in the order of its iterator.  A          *)
(* coefficient is an f32 counted in units of 2^-CoeffUnitBits: the integer *)
(* n stands for n * 2^-14, which is an f32 when n has 24 significant bits  *)
(* at most.  The sum of two coefficients is rounded as f32 rounds it, and  *)
(* the median is kept as a fraction of denominator 2, since the division   *)
(* by 2.0 of such a sum is exact.                                          *)
(***************************************************************************)
\* the unit of a coefficient is 2^-CoeffUnitBits
CoeffUnitBits == 14

\* The DCT matrix (lines 195-204) is orthonormal and the pixels are u8 (line
\* 163): no coefficient is above 255 * 32 = 8160 in magnitude
CoeffLimit == 255 * 32 * 2 ^ CoeffUnitBits

\* fixed_view::<8, 8> collected (lines 169-172)
NumCoeffs == 8 * 8

AbsOf(n) == IF n < 0 THEN 0 - n ELSE n

\* the distance between the f32 values around a, for 2^24 <= a < 2^31
f32_ulp(a) == CHOOSE u \in {2 ^ j : j \in 1..7} : (a \div u) \in (2 ^ 23)..(2 ^ 24 - 1)

\* the integer n as f32 holds it: 24 bits of significand, to nearest, ties
\* to the even significand
f32_round(n) ==
    IF AbsOf(n) < 2 ^ 24 THEN n
    ELSE LET u == f32_ulp(AbsOf(n))
             q == AbsOf(n) \div u
             r == AbsOf(n) % u
             m == IF 2 * r > u \/ (2 * r = u /\ q % 2 = 1) THEN q + 1 ELSE q
         IN  IF n < 0 THEN 0 - (m * u) ELSE m * u

\* sorted.sort_by(|a, b| a.partial_cmp(b).unwrap()) (lines 175-176)
sort_by(v) == SortSeq(v, LAMBDA a, b : a < b)

\* Mutant: the two middle elements are taken one place too high
median_off_by_one(sorted) == [num |-> f32_round(sorted[33] + sorted[34]), den |-> 2]

\* (sorted[31] + sorted[32]) / 2.0 (line 177), the indices counted from 0:
\* the f32 sum, over 2
median(sorted) == [num |-> f32_round(sorted[32] + sorted[33]), den |-> 2]

\* Mutant: > instead of >=
threshold_strict(v, m) == IF v * m.den > m.num THEN 1 ELSE 0

\* if *v >= median { 1 } else { 0 } (line 180)
threshold(v, m) == IF v * m.den >= m.num THEN 1 ELSE 0

\* the bits i..(i + n - 1) of the bit array as a number, bit i the lowest
RECURSIVE bits_value(_, _, _)
bits_value(bits, i, n) ==
    IF n = 0 THEN 0 ELSE bits[i + 1] + 2 * bits_value(bits, i + 1, n - 1)

\* hash |= 1 << i for every i with dct_vals[i] == 1 (lines 183-188)
hash_of_bits(bits) ==
    <<bits_value(bits, 48, 16), bits_value(bits, 32, 16),
      bits_value(bits, 16, 16), bits_value(bits, 0, 16)>>

\* lines 175-190: from the coefficients to the hash
phash_of_dct(vals) ==
    LET m == median(sort_by(vals))
    IN  hash_of_bits([i \in 1..Len(vals) |-> threshold(vals[i], m)])

\* The image files, each as the coefficients lines 151-172 make of its
\* bytes: the files "a", "b" and "a<TAB>b".
ImageStore ==
    (PathA :> [i \in 1..NumCoeffs |-> IF i <= 32 THEN 2 ELSE -1])
    @@ (PathB :> [i \in 1..NumCoeffs |-> IF i <= 33 THEN 0 ELSE -4])
    @@ (PathT :> [i \in 1..NumCoeffs |-> IF i <= 31 \/ i = 33 THEN 6 ELSE 3 * (i % 2)])

\* the hash of each image, computed once
HashStore == [p \in DOMAIN ImageStore |-> phash_of_dct(ImageStore[p])]

\* The program runs in the directory "run0", which holds the image files and
\* nothing else; its parent holds "run0" only, and no path that leaves the
\* parent, or starts at the root, names a file.
CwdName == <<114, 117, 110, 48>>

\* the file system follows the parts of a path from the directory at: "."
\* and an empty part stay, ".." goes up, a name enters what the directory
\* holds; nothing follows a file, not even a slash
RECURSIVE resolve(_, _, _, _)
resolve(parts, i, at, name) ==
    IF i > Len(parts) THEN [at |-> at, name |-> name]
    ELSE IF at \in {"file", "none"} THEN [at |-> "none", name |-> <<>>]
    ELSE IF parts[i] = <<>> \/ parts[i] = <<DOT>> THEN resolve(parts, i + 1, at, name)
    ELSE IF parts[i] = <<DOT, DOT>>
         THEN resolve(parts, i + 1, IF at = "cwd" THEN "parent" ELSE "none", name)
    ELSE IF at = "cwd" /\ parts[i] \in DOMAIN ImageStore
         THEN resolve(parts, i + 1, "file", parts[i])
    ELSE IF at = "parent" /\ parts[i] = CwdName
         THEN resolve(parts, i + 1, "cwd", name)
    ELSE [at |-> "none", name |-> <<>>]

\* std::fs::read(path) (line 149): the file the path names, if it names one
fs_read(path) ==
    IF Len(path) = 0 \/ path[1] = SLASH THEN [at |-> "none", name |-> <<>>]
    ELSE resolve(split(path, SLASH), 1, "cwd", <<>>)

\* image_path_to_phash (lines 148-191): Ok(hash) or Err
image_path_to_phash(path) ==
    LET r == CHOOSE x \in {fs_read(path)} : TRUE
    IN  IF r.at = "file"
        THEN [ok |-> TRUE, val |-> HashStore[r.name]]
        ELSE [ok |-> FALSE, val |-> U64Zero]

\* read_input_list (lines 84-94): lines() up to the first line that is not
\* UTF-8 (map_while(Result::ok)), each trimmed
read_input_list(lines) ==
    LET bad == {i \in 1..Len(lines) : ~Utf8Valid(lines[i])}
        n == IF bad = {} THEN Len(lines) ELSE MinOf(bad) - 1
    IN  [i \in 1..n |-> trim(lines[i])]

\* Mutant: the cache is not consulted
work_set_unfiltered(lines, cache) == collect(read_input_list(lines))

\* lines 41-45: the candidates not in the cache, collected into a HashSet
work_set(lines, cache) ==
    collect(SelectSeq(read_input_list(lines), LAMBDA p : ~contains_key(cache, p)))

\* Mutant: the handle's offset is not used, the write goes to the start
write_at_start(f, cur, bytes) == bytes \o SubSeq(f, Len(bytes) + 1, Len(f))

\* write at the handle's offset: the bytes there are replaced, the file grows
\* when the write runs past its end, and nothing after the write is removed
write_at(f, cur, bytes) ==
    SubSeq(f, 1, cur) \o bytes \o SubSeq(f, cur + Len(bytes) + 1, Len(f))

\* writeln!(output_file, "{}\t{}", path, phash) (line 61)
entry_line(path, phash) == path \o <<TAB>> \o u64_to_string(phash) \o <<NL>>

\* the write calls fmt::write makes for that line: one per argument and per
\* literal piece, empty ones skipped
entry_pieces(path, phash) ==
    SelectSeq(<<path, <<TAB>>, u64_to_string(phash), <<NL>>>>, LAMBDA x : Len(x) > 0)

(***************************************************************************)
(* Bounds of the model.                                                    *)
(***************************************************************************)
\* rayon worker threads (one per logical core in the program)
NumWorkers == 2
\* candidate lines per run
MaxInput == 3
\* bytes of a file handed to read_result alone
MaxLoadLen == 5
\* sync_channel(256) (line 48), scaled down so that senders do block and
\* results do wait in the channel together
ChannelBound == 2
\* the small coefficients handed to the hash alone are -MaxCoeff..MaxCoeff
MaxCoeff == 1

Workers == 1..NumWorkers

SeqsUpTo(S, n) == UNION {[1..k -> S] : k \in 0..n}

RECURSIVE Concat(_)
Concat(ss) == IF Len(ss) = 0 THEN <<>> ELSE Head(ss) \o Concat(Tail(ss))

\* The lines a candidate list is drawn from: "a", "./b" (the file "b", and
\* another path than the "b" of the checkpoint files), "e" (no such file),
\* "a<TAB>b", "<NBSP>a " (trimmed to "a") and "a/" (the path "a" again,
\* which as "a/" is not opened: "a" is not a directory).
CandidateLines == <<PathA, PathS, PathE, PathT, <<194, 160, 97, SP>>, PathD>>

Reverse(s) == [i \in 1..Len(s) |-> s[Len(s) + 1 - i]]

\* HashSet and rayon forget the order of the list, but for which of two equal
\* paths is kept: lists are drawn in one order, those with "a/" in both;
\* "a/" and "<NBSP>a " come with the spellings of "a" only; two lists hold
\* a line that is not UTF-8
InputLists ==
    LET Ordered == {[i \in 1..Len(ix) |-> CandidateLines[ix[i]]] :
                        ix \in {jx \in SeqsUpTo(1..Len(CandidateLines), MaxInput) :
                                    \A i \in 1..(Len(jx) - 1) : jx[i] <= jx[i + 1]}}
        Kept == {l \in Ordered :
                    (\E i \in 1..Len(l) : l[i] \in {PathD, <<194, 160, 97, SP>>})
                        => \A i \in 1..Len(l) : l[i] \notin {PathS, PathE, PathT}}
    IN  Kept
        \cup {Reverse(l) : l \in {k \in Kept : \E i \in 1..Len(k) : k[i] = PathD}}
        \cup {<<PathA, <<BAD>>, PathB>>, <<<<BAD>>, PathA>>}

\* the line of path p with the hash of q's image
StoredLine(p, q) == entry_line(p, HashStore[q])

\* a line with its tab lost: one field
Garbled(l) == [i \in 1..Len(l) |-> IF l[i] = TAB THEN 97 ELSE l[i]]

\* The checkpoint files a run may find at startup: none (created empty),
\* files the program wrote, files cut inside a line, files with a line
\* that does not parse before or after lines that do, files that name the
\* path "a" as "a/", and a file with a line outside ASCII.
InitFiles ==
    { <<>>,
      StoredLine(PathA, PathA),
      StoredLine(PathA, PathA) \o StoredLine(PathB, PathB),
      SubSeq(StoredLine(PathB, PathB), 1, 3),
      StoredLine(PathA, PathA) \o SubSeq(StoredLine(PathB, PathB), 1, 3),
      Garbled(StoredLine(PathA, PathA)),
      Garbled(StoredLine(PathA, PathA)) \o StoredLine(PathA, PathB),
      Garbled(StoredLine(PathA, PathA)) \o StoredLine(PathA, PathB)
          \o StoredLine(PathB, PathB),
      StoredLine(PathA, PathA) \o Garbled(StoredLine(PathA, PathA))
          \o StoredLine(PathB, PathB),
      StoredLine(PathB, PathB) \o <<97, TAB>> \o Tail(StoredLine(PathA, PathA)),
      StoredLine(PathA, PathB) \o StoredLine(PathA, PathA),
      StoredLine(PathD, PathA),
      StoredLine(PathA, PathA) \o StoredLine(PathD, PathB),
      <<195, 169, TAB, 49, 194, 160, NL>> \o SubSeq(StoredLine(PathA, PathA), 1, 2) }

\* Every byte string up to MaxLoadLen over the bytes read_result tells
\* apart, the lines at the edge of u64, lines outside ASCII, and lines that
\* spell one path in several ways.
LoadBytes == {TAB, NL, SP, PLUS, DIGIT0, DIGIT0 + 1, 97, 194, 160, BAD}

EdgeFiles ==
    { <<97, TAB>> \o u64_to_string(U64Max) \o <<NL>>,
      <<97, TAB>> \o u64_to_string(U64Max) \o <<NL, 97, TAB, 49, NL>>,
      <<97, TAB, 49, 56, 52, 52, 54, 55, 52, 52, 48, 55, 51, 55, 48, 57, 53, 53,
        49, 54, 49, 54, NL, 97, TAB, 49, NL>>,
      <<97, TAB, 48, 48, 49, NL, 97, 13, NL>>,
      <<97, TAB, 49, NL, 97, TAB, 48, NL, 49, NL, 98, TAB, 49, NL>>,
      <<195, 169, TAB, 49, NL>>,
      <<226, 130, 172, TAB, 49, NL, 240, 159, 152, 128, TAB, 50, NL, 237, 160, 128, TAB, 51, NL>>,
      <<97, TAB, 49, 194, 160, NL, 226, 128, 131, 98, 227, 128, 128, TAB, 50, NL>>,
      <<97, TAB, 49, NL, 97, SLASH, TAB, 50, NL>>,
      <<97, SLASH, SLASH, 98, TAB, 49, NL, 97, SLASH, 98, TAB, 50, NL,
        97, SLASH, DOT, SLASH, 98, SLASH, TAB, 51, NL, DOT, SLASH, 97, TAB, 52, NL>>,
      <<SLASH, 97, TAB, 49, NL, 97, TAB, 50, NL, SLASH, DOT, SLASH, 97, SLASH, TAB, 51, NL>> }

LoadFiles == SeqsUpTo(LoadBytes, MaxLoadLen) \cup EdgeFiles

Entry(path, phash) == [path |-> path, phash |-> phash]

AppendEntries == {Entry(p, HashStore[p]) : p \in {PathA, PathB}}

(***************************************************************************)
(* State.                                                                  *)
(***************************************************************************)
VARIABLES
    pc,         \* main: "boot", "par" (in for_each_with), "join", "exited",
                \* "killed"; "loaded" and "appended" when read_result and one
                \* append are run alone; "hashed" when the hash is
    file,       \* the bytes of the checkpoint file on disk
    cursor,     \* the offset of the handle output_file
    input,      \* the candidate lines of this run
    cache,      \* the map read_result returned
    images,     \* the work set (line 45)
    todo,       \* the paths no worker has taken yet
    workers,    \* each worker: idle, or holding a result to send
    chan,       \* the channel's buffer
    txAlive,    \* a sender exists: for_each_with has not returned
    collector,  \* the collector thread: receiving, writing a line, done
    file0,      \* history: the file as this run found it
    hashed,     \* history: how often each path was hashed in this run
    sent,       \* history: the entries sent in this run, in order
    written,    \* history: the entries whose line this run completed, in order
    committed,  \* history: how often each path's line was completed, all runs
    rerun,      \* history: this run follows a completed run on the same list
    dct_vals,   \* the coefficients, when the hash is computed alone
    hash        \* the hash of dct_vals, once computed

vars == <<pc, file, cursor, input, cache, images, todo, workers, chan, txAlive,
          collector, file0, hashed, sent, written, committed, rerun, dct_vals, hash>>

IdleWorker == [st |-> "idle", path |-> <<>>, phash |-> U64Zero]
CollectorAt(st) == [st |-> st, path |-> <<>>, phash |-> U64Zero, buf |-> <<>>]
EmptyBag == [p \in {} |-> 0]
BagAdd(b, p) == [q \in DOMAIN b \cup {p} |->
                    IF q = p THEN (IF p \in DOMAIN b THEN b[p] + 1 ELSE 1) ELSE b[q]]

Volatile(f) ==
    /\ file = f
    /\ cursor = 0
    /\ input = <<>>
    /\ cache = EmptyMap
    /\ images = {}
    /\ todo = {}
    /\ workers = [w \in Workers |-> IdleWorker]
    /\ chan = <<>>
    /\ txAlive = FALSE
    /\ collector = CollectorAt("off")
    /\ file0 = <<>>
    /\ hashed = EmptyBag
    /\ sent = <<>>
    /\ written = <<>>
    /\ rerun = FALSE
    /\ dct_vals = <<>>
    /\ hash = U64Zero

\* Before main runs: some checkpoint file, or none (created empty, line 38)
Init ==
    /\ pc = "boot"
    /\ committed = EmptyBag
    /\ \E f \in InitFiles : Volatile(f)

InitLoad ==
    /\ pc = "boot"
    /\ committed = EmptyBag
    /\ \E f \in LoadFiles : Volatile(f)

(***************************************************************************)
(* main.                                                                   *)
(***************************************************************************)
\* Mutant: read_result cuts the file at valid_len (set_len)
Startup_truncates ==
    /\ pc \in {"boot", "exited", "killed"}
    /\ \E r \in {read_result(file)}, lines \in InputLists :
        /\ input' = lines
        /\ cache' = r.cache
        /\ cursor' = r.valid_len
        /\ images' = work_set(lines, r.cache)
        /\ todo' = work_set(lines, r.cache)
        /\ rerun' = (pc = "exited" /\ lines = input)
    /\ pc' = "par"
    /\ workers' = [w \in Workers |-> IdleWorker]
    /\ chan' = <<>>
    /\ txAlive' = TRUE
    /\ collector' = CollectorAt("recv")
    /\ file0' = file
    /\ hashed' = EmptyBag
    /\ sent' = <<>>
    /\ written' = <<>>
    /\ file' = SubSeq(file, 1, read_result(file).valid_len)
    /\ UNCHANGED <<committed, dct_vals, hash>>

\* lines 38-51: open the file, read_result, build the work set, create the
\* channel, spawn the collector, enter for_each_with
Startup ==
    /\ pc \in {"boot", "exited", "killed"}
    /\ \E r \in {read_result(file)}, lines \in InputLists :
        /\ input' = lines
        /\ cache' = r.cache
        /\ cursor' = r.valid_len
        /\ images' = work_set(lines, r.cache)
        /\ todo' = work_set(lines, r.cache)
        /\ rerun' = (pc = "exited" /\ lines = input)
    /\ pc' = "par"
    /\ workers' = [w \in Workers |-> IdleWorker]
    /\ chan' = <<>>
    /\ txAlive' = TRUE
    /\ collector' = CollectorAt("recv")
    /\ file0' = file
    /\ hashed' = EmptyBag
    /\ sent' = <<>>
    /\ written' = <<>>
    /\ UNCHANGED <<file, committed, dct_vals, hash>>

\* Mutant: on an error the worker sends the path with a zero hash
WorkerHash_sends_on_error(w) ==
    /\ pc = "par"
    /\ workers[w].st = "idle"
    /\ \E p \in todo :
        /\ todo' = todo \ {p}
        /\ hashed' = BagAdd(hashed, p)
        /\ workers' = [workers EXCEPT ![w] = [st |-> "send", path |-> p,
                                              phash |-> image_path_to_phash(p).val]]
    /\ UNCHANGED <<pc, file, cursor, input, cache, images, chan, txAlive, collector,
                   file0, sent, written, committed, rerun, dct_vals, hash>>

\* lines 69-75: a worker takes a path of the work set and hashes it; an error
\* is reported and the worker goes on
WorkerHash(w) ==
    /\ pc = "par"
    /\ workers[w].st = "idle"
    /\ \E p \in todo :
        LET r == image_path_to_phash(p) IN
        /\ todo' = todo \ {p}
        /\ hashed' = BagAdd(hashed, p)
        /\ workers' = IF r.ok
                      THEN [workers EXCEPT ![w] = [st |-> "send", path |-> p, phash |-> r.val]]
                      ELSE workers
    /\ UNCHANGED <<pc, file, cursor, input, cache, images, chan, txAlive, collector,
                   file0, sent, written, committed, rerun, dct_vals, hash>>

\* Mutant: the channel is not bounded, send never blocks
WorkerSend_unbounded(w) ==
    /\ pc = "par"
    /\ workers[w].st = "send"
    /\ chan' = Append(chan, Entry(workers[w].path, workers[w].phash))
    /\ sent' = Append(sent, Entry(workers[w].path, workers[w].phash))
    /\ workers' = [workers EXCEPT ![w] = IdleWorker]
    /\ UNCHANGED <<pc, file, cursor, input, cache, images, todo, txAlive, collector,
                   file0, hashed, written, committed, rerun, dct_vals, hash>>

\* Mutant: a result is put in front of the results that wait in the channel
WorkerSend_in_front(w) ==
    /\ pc = "par"
    /\ workers[w].st = "send"
    /\ Len(chan) < ChannelBound
    /\ chan' = <<Entry(workers[w].path, workers[w].phash)>> \o chan
    /\ sent' = Append(sent, Entry(workers[w].path, workers[w].phash))
    /\ workers' = [workers EXCEPT ![w] = IdleWorker]
    /\ UNCHANGED <<pc, file, cursor, input, cache, images, todo, txAlive, collector,
                   file0, hashed, written, committed, rerun, dct_vals, hash>>

\* line 77: tx.send blocks while the buffer is full
WorkerSend(w) ==
    /\ pc = "par"
    /\ workers[w].st = "send"
    /\ Len(chan) < ChannelBound
    /\ chan' = Append(chan, Entry(workers[w].path, workers[w].phash))
    /\ sent' = Append(sent, Entry(workers[w].path, workers[w].phash))
    /\ workers' = [workers EXCEPT ![w] = IdleWorker]
    /\ UNCHANGED <<pc, file, cursor, input, cache, images, todo, txAlive, collector,
                   file0, hashed, written, committed, rerun, dct_vals, hash>>

\* Mutant: main keeps a sender of its own, the channel never closes
ParIterDone_keeps_sender ==
    /\ pc = "par"
    /\ todo = {}
    /\ \A w \in Workers : workers[w].st = "idle"
    /\ pc' = "join"
    /\ UNCHANGED <<file, cursor, input, cache, images, todo, workers, chan, txAlive,
                   collector, file0, hashed, sent, written, committed, rerun, dct_vals, hash>>

\* line 78: for_each_with returns when every path is done; the senders drop
ParIterDone ==
    /\ pc = "par"
    /\ todo = {}
    /\ \A w \in Workers : workers[w].st = "idle"
    /\ pc' = "join"
    /\ txAlive' = FALSE
    /\ UNCHANGED <<file, cursor, input, cache, images, todo, workers, chan, collector,
                   file0, hashed, sent, written, committed, rerun, dct_vals, hash>>

\* lines 53-59: the collector receives an entry whose path holds a tab or a
\* newline, warns and goes on
CollectorSkip ==
    /\ pc \in {"par", "join"}
    /\ collector.st = "recv"
    /\ chan # <<>>
    /\ contains(Head(chan).path, TAB) \/ contains(Head(chan).path, NL)
    /\ chan' = Tail(chan)
    /\ UNCHANGED <<pc, file, cursor, input, cache, images, todo, workers, txAlive,
                   collector, file0, hashed, sent, written, committed, rerun, dct_vals, hash>>

\* Mutant: the collector takes the next entry while a line is unfinished
CollectorRecv_while_writing ==
    /\ pc \in {"par", "join"}
    /\ collector.st \in {"recv", "write"}
    /\ chan # <<>>
    /\ ~(contains(Head(chan).path, TAB) \/ contains(Head(chan).path, NL))
    /\ chan' = Tail(chan)
    /\ collector' = [st |-> "write", path |-> Head(chan).path, phash |-> Head(chan).phash,
                     buf |-> entry_pieces(Head(chan).path, Head(chan).phash)]
    /\ UNCHANGED <<pc, file, cursor, input, cache, images, todo, workers, txAlive,
                   file0, hashed, sent, written, committed, rerun, dct_vals, hash>>

\* lines 53-61: the collector receives an entry and formats its line
CollectorRecv ==
    /\ pc \in {"par", "join"}
    /\ collector.st = "recv"
    /\ chan # <<>>
    /\ ~(contains(Head(chan).path, TAB) \/ contains(Head(chan).path, NL))
    /\ chan' = Tail(chan)
    /\ collector' = [st |-> "write", path |-> Head(chan).path, phash |-> Head(chan).phash,
                     buf |-> entry_pieces(Head(chan).path, Head(chan).phash)]
    /\ UNCHANGED <<pc, file, cursor, input, cache, images, todo, workers, txAlive,
                   file0, hashed, sent, written, committed, rerun, dct_vals, hash>>

\* lines 61-62: one write call of the line, at the handle's offset; after the
\* last one the flush (File::flush does nothing) and the next iteration
CollectorWrite ==
    /\ pc \in {"par", "join"}
    /\ collector.st = "write"
    /\ file' = write_at(file, cursor, Head(collector.buf))
    /\ cursor' = cursor + Len(Head(collector.buf))
    /\ IF Len(collector.buf) > 1
       THEN /\ collector' = [collector EXCEPT !.buf = Tail(collector.buf)]
            /\ UNCHANGED <<written, committed>>
       ELSE /\ collector' = CollectorAt("recv")
            /\ written' = Append(written, Entry(collector.path, collector.phash))
            /\ committed' = BagAdd(committed, collector.path)
    /\ UNCHANGED <<pc, input, cache, images, todo, workers, chan, txAlive,
                   file0, hashed, sent, rerun, dct_vals, hash>>

\* line 53: rx.iter() ends when the buffer is empty and every sender dropped
CollectorExit ==
    /\ pc = "join"
    /\ collector.st = "recv"
    /\ chan = <<>>
    /\ ~txAlive
    /\ collector' = CollectorAt("done")
    /\ UNCHANGED <<pc, file, cursor, input, cache, images, todo, workers, chan, txAlive,
                   file0, hashed, sent, written, committed, rerun, dct_vals, hash>>

\* line 80: join returns, main returns
MainJoin ==
    /\ pc = "join"
    /\ collector.st = "done"
    /\ pc' = "exited"
    /\ UNCHANGED <<file, cursor, input, cache, images, todo, workers, chan, txAlive,
                   collector, file0, hashed, sent, written, committed, rerun, dct_vals, hash>>

\* The process is killed: the file keeps what the write calls made so far
\* put there, everything in memory is gone
Kill ==
    /\ pc \in {"par", "join"}
    /\ pc' = "killed"
    /\ cursor' = 0
    /\ input' = <<>>
    /\ cache' = EmptyMap
    /\ images' = {}
    /\ todo' = {}
    /\ workers' = [w \in Workers |-> IdleWorker]
    /\ chan' = <<>>
    /\ txAlive' = FALSE
    /\ collector' = CollectorAt("off")
    /\ file0' = <<>>
    /\ hashed' = EmptyBag
    /\ sent' = <<>>
    /\ written' = <<>>
    /\ rerun' = FALSE
    /\ UNCHANGED <<file, committed, dct_vals, hash>>

\* The steps of the threads of a running process
Threads ==
    \/ \E w \in Workers : WorkerHash(w)
    \/ \E w \in Workers : WorkerSend(w)
    \/ ParIterDone
    \/ CollectorSkip
    \/ CollectorRecv
    \/ CollectorWrite
    \/ CollectorExit
    \/ MainJoin

Run == Startup \/ Threads

Next == Run \/ Kill

Spec == Init /\ [][Next]_vars

\* A process that is not killed: its threads are scheduled as long as one of
\* them can take a step
SpecLive == Init /\ [][Run]_vars /\ WF_vars(Threads)

\* the well-formed lines of the file name pairwise distinct paths, distinct
\* as PathBuf; a line is well-formed as read_result takes lines: terminated,
\* UTF-8, two fields split at the tab, the second (trimmed) a u64
UniquePaths(f) ==
    LET ends == {e \in 1..Len(f) : f[e] = NL}
        line(e) == SubSeq(f, 1 + MaxOf({0} \cup {x \in ends : x < e}), e)
        fields(e) == split(line(e), TAB)
        good(e) == /\ Utf8Valid(line(e))
                   /\ Len(fields(e)) = 2
                   /\ parse_u64(trim(fields(e)[2])).ok
    IN  \A d, e \in ends :
            (good(d) /\ good(e) /\ path_eq(trim(fields(d)[1]), trim(fields(e)[1])))
                => d = e

\* main started on a checkpoint file whose well-formed lines name pairwise
\* distinct paths
InitUnique ==
    /\ pc = "boot"
    /\ committed = EmptyBag
    /\ \E f \in {g \in InitFiles : UniquePaths(g)} : Volatile(f)

SpecUnique == InitUnique /\ [][Next]_vars

(***************************************************************************)
(* read_result and one append, run alone on every small file.              *)
(***************************************************************************)
\* line 41
LoadCall ==
    /\ pc = "boot"
    /\ pc' = "loaded"
    /\ cache' = read_result(file).cache
    /\ cursor' = read_result(file).valid_len
    /\ file0' = file
    /\ UNCHANGED <<file, input, images, todo, workers, chan, txAlive, collector,
                   hashed, sent, written, committed, rerun, dct_vals, hash>>

\* lines 61-62, the whole line
AppendCall ==
    /\ pc = "loaded"
    /\ pc' = "appended"
    /\ \E e \in AppendEntries :
        /\ file' = write_at(file, cursor, entry_line(e.path, e.phash))
        /\ cursor' = cursor + Len(entry_line(e.path, e.phash))
        /\ written' = <<e>>
    /\ UNCHANGED <<input, cache, images, todo, workers, chan, txAlive, collector,
                   file0, hashed, sent, committed, rerun, dct_vals, hash>>

NextLoad == LoadCall \/ AppendCall

SpecLoad == InitLoad /\ [][NextLoad]_vars

(***************************************************************************)
(* The hash computed alone (lines 175-190) on vectors of 64 coefficients.  *)
(***************************************************************************)
\* a few units around 0, and 1024 and 1024 + 2^-13: neighbours among the f32
\* values, whose sum f32 does not hold
CoeffValues ==
    {v \in ((0 - MaxCoeff)..MaxCoeff) \cup {2 ^ 24, 2 ^ 24 + 2} : AbsOf(v) <= CoeffLimit}

\* how many coefficients take the first and the second value of a vector
CoeffCounts == {0, 1, 2, 30, 31, 32, 33, 34, 62, 63, 64}

\* the places of a vector are filled in steps of an odd stride
CoeffStrides == {1, 5, 27}

\* n1 coefficients a, n2 coefficients b, the others c, spread by the stride
CoeffVector(a, b, c, n1, n2, stride) ==
    [i \in 1..NumCoeffs |->
        LET r == ((i - 1) * stride) % NumCoeffs
        IN  IF r < n1 THEN a ELSE IF r < n1 + n2 THEN b ELSE c]

CoeffVectors ==
    {CoeffVector(a, b, c, n1, n2, stride) :
        a \in CoeffValues, b \in CoeffValues, c \in CoeffValues,
        n1 \in CoeffCounts, n2 \in {n \in CoeffCounts : n <= 34}, stride \in CoeffStrides}

InitHash ==
    /\ pc = "boot"
    /\ committed = EmptyBag
    /\ file = <<>>
    /\ cursor = 0
    /\ input = <<>>
    /\ cache = EmptyMap
    /\ images = {}
    /\ todo = {}
    /\ workers = [w \in Workers |-> IdleWorker]
    /\ chan = <<>>
    /\ txAlive = FALSE
    /\ collector = CollectorAt("off")
    /\ file0 = <<>>
    /\ hashed = EmptyBag
    /\ sent = <<>>
    /\ written = <<>>
    /\ rerun = FALSE
    /\ dct_vals \in CoeffVectors
    /\ hash = U64Zero

\* lines 175-190
HashCall ==
    /\ pc = "boot"
    /\ pc' = "hashed"
    /\ hash' = phash_of_dct(dct_vals)
    /\ UNCHANGED <<file, cursor, input, cache, images, todo, workers, chan, txAlive,
                   collector, file0, hashed, sent, written, committed, rerun, dct_vals>>

NextHash == HashCall

SpecHash == InitHash /\ [][NextHash]_vars

(***************************************************************************)
(* The checkpoint format, stated on the bytes.                             *)
(***************************************************************************)
Range(s) == {s[i] : i \in 1..Len(s)}

LineEnds(f) == {e \in 1..Len(f) : f[e] = NL}

\* the terminated line that ends at e
LineAt(f, e) == SubSeq(f, 1 + MaxOf({0} \cup {x \in LineEnds(f) : x < e}), e)

TabsIn(l) == {i \in 1..Len(l) : l[i] = TAB}

PathField(l) == trim(SubSeq(l, 1, MinOf(TabsIn(l)) - 1))

HashField(l) == trim(SubSeq(l, MinOf(TabsIn(l)) + 1, Len(l)))

U64MaxDigits ==
    <<49, 56, 52, 52, 54, 55, 52, 52, 48, 55, 51, 55, 48, 57, 53, 53, 49, 54, 49, 53>>

LexLeq(a, b) ==
    a = b \/ \E i \in 1..Len(a) : a[i] < b[i] /\ \A j \in 1..(i - 1) : a[j] = b[j]

StripPlus(s) == IF Len(s) > 0 /\ s[1] = PLUS THEN Tail(s) ELSE s

StripZeros(d) ==
    LET nz == {i \in 1..Len(d) : d[i] # DIGIT0}
    IN  IF nz = {} THEN <<DIGIT0>> ELSE SubSeq(d, MinOf(nz), Len(d))

\* a decimal numeral of a number below 2^64, as u64's parser takes it: the
\* digits may follow one '+', and zeros may lead
IsU64Decimal(s) ==
    LET d == StripPlus(s) IN
    /\ Len(d) > 0
    /\ \A i \in 1..Len(d) : IsDigit(d[i])
    /\ \/ Len(StripZeros(d)) < 20
       \/ Len(StripZeros(d)) = 20 /\ LexLeq(StripZeros(d), U64MaxDigits)

\* the numeral as the program prints the number
Canonical(s) == StripZeros(StripPlus(s))

\* a terminated line of two tab-separated fields, the second a u64, the
\* fields taken without the white space around them
WellFormedLine(l) ==
    /\ Len(l) > 0
    /\ l[Len(l)] = NL
    /\ Utf8Valid(l)
    /\ Cardinality(TabsIn(l)) = 1
    /\ IsU64Decimal(HashField(l))

\* the length of the longest prefix made of well-formed lines only
PrefixLen(f) ==
    MaxOf({0} \cup {e \in LineEnds(f) :
                        \A x \in LineEnds(f) : x <= e => WellFormedLine(LineAt(f, x))})

PrefixEnds(f) == {e \in LineEnds(f) : e <= PrefixLen(f)}

\* two byte strings name one path: PathBuf compares paths by their
\* components, so "a", "a/" and "a/." are one path
SamePath(p, q) == path_eq(p, q)

\* the map has a key for the path p
HasPath(m, p) == \E k \in DOMAIN m : SamePath(k, p)

\* the lines of the prefix that name the path of the line ending at e
LinesNaming(f, e) ==
    {x \in PrefixEnds(f) : SamePath(PathField(LineAt(f, x)), PathField(LineAt(f, e)))}

\* the map holds the line ending at e: its path with its hash
LineInMap(f, e, m) ==
    \E k \in DOMAIN m :
        /\ SamePath(k, PathField(LineAt(f, e)))
        /\ u64_to_string(m[k]) = Canonical(HashField(LineAt(f, e)))

\* the map holds nothing but paths of lines of the prefix
OnlyPrefixKeys(f, m) ==
    \A k \in DOMAIN m : \E e \in PrefixEnds(f) : SamePath(k, PathField(LineAt(f, e)))

(***************************************************************************)
(* C1.  As claimed: read_result returns exactly the entries of the longest *)
(* well-formed prefix; every line before the first line that is            *)
(* unterminated, not of two fields or without a u64 second field is in the *)
(* returned map, and no line at or after it contributes an entry.          *)
(* This fails when two lines of the prefix name the same path.             *)
(***************************************************************************)
C1_AsClaimed ==
    pc = "loaded" =>
        /\ OnlyPrefixKeys(file0, cache)
        /\ \A e \in PrefixEnds(file0) : LineInMap(file0, e, cache)

(***************************************************************************)
(* C1, amended.  read_result returns what the lines of the longest         *)
(* well-formed prefix insert in file order: the map has one key for each   *)
(* path those lines name (paths compared as PathBuf, by components), the   *)
(* key is spelled as in the first line that names the path, it maps to the *)
(* hash of the last line that names it, and no line at or after the first  *)
(* bad line contributes, well-formed or not.                               *)
(***************************************************************************)
C1_PrefixEntries ==
    pc = "loaded" =>
        /\ OnlyPrefixKeys(file0, cache)
        /\ \A j, k \in DOMAIN cache : SamePath(j, k) => j = k
        /\ \A e \in PrefixEnds(file0) :
              \E k \in DOMAIN cache :
                  /\ k = PathField(LineAt(file0, MinOf(LinesNaming(file0, e))))
                  /\ u64_to_string(cache[k]) =
                        Canonical(HashField(LineAt(file0, MaxOf(LinesNaming(file0, e)))))

\* a file with entries, then a bad line, then a well-formed line that the
\* map does not hold
C1_Witness ==
    /\ pc = "loaded"
    /\ PrefixLen(file0) > 0
    /\ \E e \in LineEnds(file0) :
          /\ e > PrefixLen(file0)
          /\ WellFormedLine(LineAt(file0, e))
          /\ ~HasPath(cache, PathField(LineAt(file0, e)))

(***************************************************************************)
(* C2.  After read_result the handle's offset is the length of the         *)
(* well-formed prefix, and after the first append the file begins with the *)
(* same prefix bytes followed at once by the line <path> TAB <hash> NL of  *)
(* the new entry.                                                          *)
(***************************************************************************)
C2_CursorAtPrefixEnd ==
    /\ pc = "loaded" => cursor = PrefixLen(file0)
    /\ pc = "appended" =>
          LET n == PrefixLen(file0)
              l == SubSeq(file, n + 1, cursor)
          IN  /\ SubSeq(file, 1, n) = SubSeq(file0, 1, n)
              /\ WellFormedLine(l)
              /\ LineEnds(l) = {Len(l)}
              /\ PathField(l) = written[1].path
              /\ l[Len(written[1].path) + 1] = TAB
              /\ parse_u64(SubSeq(l, Len(written[1].path) + 2, Len(l) - 1)).val = written[1].phash
              /\ HashField(l) = Canonical(HashField(l))

\* an append after a load that stopped inside the file, behind some entries
C2_Witness ==
    /\ pc = "appended"
    /\ PrefixLen(file0) > 0
    /\ PrefixLen(file0) < Len(file0)

(***************************************************************************)
(* What a run appended, stated on the bytes.                               *)
(***************************************************************************)
PathsOf(es) == {es[i].path : i \in 1..Len(es)}

Delimited(path) == \E i \in 1..Len(path) : path[i] \in {TAB, NL}

\* the line of an entry: <path> TAB <hash in decimal> NL
ExpectedLine(e) == e.path \o <<TAB>> \o u64_to_string(e.phash) \o <<NL>>

\* the bytes between the prefix this run recovered and the handle's offset
Appended == SubSeq(file, PrefixLen(file0) + 1, cursor)

\* seg is exactly one well-formed line for each path of ps, with its hash
LinesFor(seg, ps) ==
    /\ Cardinality(LineEnds(seg)) = Cardinality(ps)
    /\ Len(seg) > 0 => seg[Len(seg)] = NL
    /\ \A e \in LineEnds(seg) :
          /\ WellFormedLine(LineAt(seg, e))
          /\ PathField(LineAt(seg, e)) \in ps
          /\ HashField(LineAt(seg, e)) =
                u64_to_string(image_path_to_phash(PathField(LineAt(seg, e))).val)
    /\ \A p \in ps : \E e \in LineEnds(seg) : PathField(LineAt(seg, e)) = p

Hashable(p) == image_path_to_phash(p).ok

(***************************************************************************)
(* C3.  As claimed: after a run that completes the file is the well-formed *)
(* prefix followed by the lines this run appended and nothing else: no     *)
(* byte of the discarded tail remains and every line is well-formed.       *)
(* The code seeks to the end of the prefix and never truncates, so a tail  *)
(* longer than what the run writes stays in the file.                      *)
(***************************************************************************)
C3_AsClaimed ==
    pc = "exited" =>
        /\ file = SubSeq(file0, 1, PrefixLen(file0))
                    \o Concat([i \in 1..Len(written) |-> ExpectedLine(written[i])])
        /\ PrefixLen(file) = Len(file)

\* a completed run that appended to a file with a tail
C3_Witness ==
    /\ pc = "exited"
    /\ PrefixLen(file0) < Len(file0)
    /\ Len(written) > 0

(***************************************************************************)
(* C4.  As claimed: when a killed run is restarted, read_result returns    *)
(* every entry whose line was completed before the kill, and no completed  *)
(* entry is written a second time, after any number of kills.              *)
(* A tail the code left in the file (C3) can follow a completed line with  *)
(* a line for the same path, which then replaces the entry in the map.     *)
(***************************************************************************)
C4_AsClaimed ==
    [][(pc = "killed" /\ pc' = "par") =>
          /\ \A p \in DOMAIN committed :
                \E k \in DOMAIN cache' :
                    SamePath(k, p) /\ cache'[k] = image_path_to_phash(p).val
          /\ \A p \in DOMAIN committed : committed[p] = 1]_vars

\* a restart after a kill that fell inside a line, with a completed entry
C4_Witness ==
    /\ pc = "par"
    /\ DOMAIN committed # {}
    /\ PrefixLen(file0) < Len(file0)
    /\ written = <<>>
    /\ \A p \in DOMAIN committed : HasPath(cache, p)

(***************************************************************************)
(* C5.  As claimed: a second run on the same list and file ends with the   *)
(* same entries as the first, and its work set holds no path the first run *)
(* processed.  Paths whose hashing failed and paths with a tab are not in  *)
(* the file, so the second run hashes them again.                          *)
(***************************************************************************)
C5_AsClaimed ==
    [][/\ (pc = "exited" /\ pc' = "par" /\ input' = input)
            => images' \cap DOMAIN hashed = {}
       /\ rerun => read_result(file').cache = read_result(file).cache]_vars

(***************************************************************************)
(* C5, amended.  A second run on the same list and file ends with the same *)
(* entries as the first (it leaves the file as it is), and its work set    *)
(* holds no path that the first run wrote or found in the cache: it holds  *)
(* exactly the paths the first run hashed without writing them, those      *)
(* whose hashing failed and those with a tab, but for the ones the file    *)
(* has an entry for when the second run reads it.                          *)
(***************************************************************************)
C5_Idempotent ==
    [][/\ (pc = "exited" /\ pc' = "par" /\ input' = input)
            => /\ \A p \in images' :
                     \A q \in PathsOf(written) \cup DOMAIN cache : ~SamePath(p, q)
               /\ images' = {p \in DOMAIN hashed :
                                (~Hashable(p) \/ Delimited(p)) /\ ~HasPath(cache', p)}
       /\ rerun => /\ file' = file
                   /\ read_result(file').cache = read_result(file).cache]_vars

\* a completed second run on the list of a first run that wrote an entry
\* and failed on another path
C5_Witness ==
    /\ pc = "exited"
    /\ rerun
    /\ PathA \in DOMAIN cache
    /\ PathA \notin DOMAIN hashed
    /\ PathE \in DOMAIN hashed

(***************************************************************************)
(* C6.  As claimed, paths with a tab or a newline left aside: two or more  *)
(* workers over M distinct paths that all hash successfully: the completed *)
(* run has appended exactly M new well-formed lines to the file, one per   *)
(* path with its hash, and no line is corrupted, merged or missing: after  *)
(* the prefix the run recovered the file holds those M lines and nothing   *)
(* else.  The code does not discard the tail it found (C3): what the M     *)
(* lines do not cover stays in the file, as lines that are cut or that the *)
(* run did not write.                                                      *)
(***************************************************************************)
C6_AsClaimed ==
    (pc = "exited" /\ NumWorkers >= 2
        /\ \A p \in images : Hashable(p) /\ ~Delimited(p)) =>
        /\ SubSeq(file, 1, PrefixLen(file0)) = SubSeq(file0, 1, PrefixLen(file0))
        /\ LinesFor(SubSeq(file, PrefixLen(file0) + 1, Len(file)), images)

\* a completed run of two paths, started on a file whose tail is longer
\* than the two lines the run wrote over it
C6_Witness ==
    /\ pc = "exited"
    /\ Cardinality(images) = 2
    /\ \A p \in images : Hashable(p) /\ ~Delimited(p)
    /\ Len(written) = 2
    /\ PrefixLen(file0) < Len(file0)
    /\ ~LinesFor(SubSeq(file, PrefixLen(file0) + 1, Len(file)), images)

\* the candidate paths of a list: its lines up to the first that is not
\* UTF-8, without the white space around them
Candidates(lines) ==
    {trim(lines[i]) : i \in {j \in 1..Len(lines) : \A h \in 1..j : Utf8Valid(lines[h])}}

NoRepeat(es) == \A i, j \in 1..Len(es) : SamePath(es[i].path, es[j].path) => i = j

(***************************************************************************)
(* C7.  As claimed: every run completes; when the workers are done the     *)
(* channel closes, the collector takes every entry left in it, appends it  *)
(* and ends, main returns after the collector, and at exit no entry that   *)
(* was sent is unwritten.  An entry whose path holds a tab is taken from   *)
(* the channel and not written.                                            *)
(***************************************************************************)
C7_AsClaimed ==
    /\ (pc = "par") ~> (pc = "exited")
    /\ [](pc = "exited" =>
            /\ chan = <<>>
            /\ collector.st = "done"
            /\ \A i \in 1..Len(sent) : sent[i] \in Range(written))

(***************************************************************************)
(* C7, amended.  Every run completes.  The collector ends only when the    *)
(* channel is empty and closed, and main returns only after the collector  *)
(* ended; at exit no worker holds a result, the channel is empty, and      *)
(* every entry that was sent has been written, or skipped because its path *)
(* holds a tab or a newline.                                               *)
(***************************************************************************)
C7_TerminatesDrained ==
    /\ (pc = "par") ~> (pc = "exited")
    /\ [](pc = "exited" =>
            /\ chan = <<>>
            /\ collector.st = "done"
            /\ todo = {}
            /\ \A w \in Workers : workers[w].st = "idle"
            /\ \A i \in 1..Len(sent) :
                  IF Delimited(sent[i].path)
                  THEN sent[i] \notin Range(written)
                  ELSE sent[i] \in Range(written))
    /\ [][/\ (collector.st # "done" /\ collector'.st = "done") => (chan = <<>> /\ ~txAlive)
          /\ (pc # "exited" /\ pc' = "exited") => collector.st = "done"]_vars

\* the channel is closed while it still holds an entry and the collector
\* is writing another
C7_Witness ==
    /\ pc = "join"
    /\ ~txAlive
    /\ chan # <<>>
    /\ collector.st = "write"

(***************************************************************************)
(* C8.  A path with a tab or a newline is never written: the collector     *)
(* skips its entry and goes on with the next; every line the collector     *)
(* writes has exactly two tab-separated fields and ends with a newline.    *)
(***************************************************************************)
C8_DelimiterSafety ==
    /\ \A i \in 1..Len(written) : ~Delimited(written[i].path)
    /\ \A i \in 1..Len(sent) : Delimited(sent[i].path) => sent[i] \notin Range(written)
    /\ collector.st = "write" => ~Delimited(collector.path)
    /\ collector.st \in {"recv", "done"} =>
          /\ Cardinality(LineEnds(Appended)) = Len(written)
          /\ Len(Appended) > 0 => Appended[Len(Appended)] = NL
          /\ \A e \in LineEnds(Appended) :
                /\ Cardinality(TabsIn(LineAt(Appended, e))) = 1
                /\ Len(split(LineAt(Appended, e), TAB)) = 2
                /\ \E i \in 1..Len(written) :
                      PathField(LineAt(Appended, e)) = written[i].path

\* an entry with a tab was sent first and skipped, the next one is written
C8_Witness ==
    /\ pc = "exited"
    /\ Len(sent) = 2
    /\ Delimited(sent[1].path)
    /\ written = <<sent[2]>>

(***************************************************************************)
(* C9.  The work set is the set of candidate paths minus the keys of the   *)
(* cache, as sets of paths (PathBuf): it holds each candidate path that    *)
(* has no key in the cache once, and nothing else; a path in the cache is  *)
(* not hashed or written in this run, and a path that is several times in  *)
(* the list is hashed by one worker only and written at most once.         *)
(***************************************************************************)
C9_NoDuplicateWork ==
    pc \in {"par", "join", "exited"} =>
        /\ images \subseteq Candidates(input)
        /\ \A p \in images : ~HasPath(cache, p)
        /\ \A c \in Candidates(input) :
              ~HasPath(cache, c) => \E p \in images : SamePath(p, c)
        /\ \A p, q \in images : SamePath(p, q) => p = q
        /\ DOMAIN hashed \subseteq images
        /\ \A p \in DOMAIN hashed : hashed[p] = 1
        /\ \A w \in Workers : workers[w].st = "send" => workers[w].path \in DOMAIN hashed
        /\ \A v, w \in Workers :
              (workers[v].st = "send" /\ workers[w].st = "send" /\ v # w)
                  => workers[v].path # workers[w].path
        /\ PathsOf(sent) \subseteq DOMAIN hashed
        /\ PathsOf(written) \subseteq PathsOf(sent)
        /\ NoRepeat(sent)
        /\ NoRepeat(written)
        /\ \A k \in DOMAIN cache :
              \A p \in DOMAIN hashed \cup PathsOf(written) : ~SamePath(k, p)

\* a list that names one path in three spellings, and a run that wrote it
\* once, beside a path of the cache
C9_Witness ==
    /\ pc = "exited"
    /\ Len(input) = 3
    /\ \A i \in 1..3 : Utf8Valid(input[i])
    /\ \A i, j \in 1..3 : i # j => input[i] # input[j]
    /\ \A i, j \in 1..3 : SamePath(trim(input[i]), trim(input[j]))
    /\ \E i, j \in 1..3 : trim(input[i]) # trim(input[j])
    /\ Len(written) = 1
    /\ DOMAIN cache # {}

(***************************************************************************)
(* C10.  As claimed: when hashing a path fails nothing is sent for it, the *)
(* file is not changed by it, every other path of the work set that hashes *)
(* successfully is still written, and the run completes.  A path with a    *)
(* tab hashes successfully and is not written.                             *)
(***************************************************************************)
C10_AsClaimed ==
    /\ (pc = "par") ~> (pc = "exited")
    /\ []((pc = "exited" /\ \E p \in images : ~Hashable(p)) =>
            /\ \A p \in images : ~Hashable(p) => p \notin PathsOf(sent)
            /\ \A q \in images : Hashable(q) => q \in PathsOf(written))

(***************************************************************************)
(* C10, amended.  When hashing a path fails nothing is sent for it and the *)
(* step leaves the file, the channel and the other workers as they are;    *)
(* every other path of the work set that hashes successfully and holds no  *)
(* tab or newline is written, and the run completes whatever the number of *)
(* failures.                                                               *)
(***************************************************************************)
C10_ErrorIsolation ==
    /\ (pc = "par") ~> (pc = "exited")
    /\ [](pc \in {"par", "join", "exited"} =>
            /\ \A p \in images : ~Hashable(p) =>
                  /\ p \notin PathsOf(sent)
                  /\ \A w \in Workers : workers[w].st = "send" => workers[w].path # p
            /\ pc = "exited" =>
                  \A q \in images :
                      (Hashable(q) /\ ~Delimited(q)) => q \in PathsOf(written))
    /\ [][(\E p \in DOMAIN hashed' : ~Hashable(p) /\ p \notin DOMAIN hashed)
              => UNCHANGED <<pc, file, cursor, chan, workers, collector, sent, written>>]_vars

\* a run that failed on one path and wrote another
C10_Witness ==
    /\ pc = "exited"
    /\ PathE \in DOMAIN hashed
    /\ PathsOf(written) = {PathA}

(***************************************************************************)
(* The hash, stated on the coefficients and on the bits of the u64.        *)
(***************************************************************************)
\* bit i of a u64, bit 0 the lowest
BitOf(h, i) == (h[4 - (i \div 16)] \div (2 ^ (i % 16))) % 2

SetBits(h) == {i \in 0..63 : BitOf(h, i) = 1}

\* the element at index r (from 0) of the values in ascending order: fewer
\* than r + 1 values are below it, at least r + 1 are not above it
RankValue(vals, r) ==
    CHOOSE v \in Range(vals) :
        /\ Cardinality({i \in 1..Len(vals) : vals[i] < v}) <= r
        /\ Cardinality({i \in 1..Len(vals) : vals[i] <= v}) > r

\* the significand of an integer of more than 24 bits is even
EvenSignificand(n) ==
    \E e \in 1..8 : AbsOf(n) \div (2 ^ e) \in (2 ^ 23)..(2 ^ 24 - 1)
                      /\ AbsOf(n) % (2 ^ (e + 1)) = 0

\* the integers f32 holds: those of at most 24 significant bits
IsF32(n) == \E e \in 0..8 : AbsOf(n) % (2 ^ e) = 0 /\ AbsOf(n) \div (2 ^ e) <= 2 ^ 24

\* the f32 nearest to n; of two equally near the one with the even
\* significand
NearestF32(n) ==
    CHOOSE r \in (n - 4)..(n + 4) :
        /\ IsF32(r)
        /\ \A q \in (n - 4)..(n + 4) : IsF32(q) =>
              \/ AbsOf(q - n) > AbsOf(r - n)
              \/ q = r
              \/ AbsOf(q - n) = AbsOf(r - n) /\ EvenSignificand(r)

C19_AtLeastHalfSet ==
    pc = "hashed" =>
        /\ Cardinality(SetBits(hash)) >= 32
        /\ hash # U64Zero
        /\ (\A i, j \in 1..64 : dct_vals[i] = dct_vals[j]) =>
              (SetBits(hash) = 0..63 /\ hash = U64Max)

\* a hash with exactly 32 bits set, of coefficients that are not all equal
C19_Witness ==
    /\ pc = "hashed"
    /\ Cardinality(SetBits(hash)) = 32
    /\ \E i \in 1..64 : dct_vals[i] # dct_vals[1]

(***************************************************************************)
(* The lines of a run, stated on the bytes and on the entries.             *)
(***************************************************************************)
\* the lines of a sequence of entries, one after the other
LinesOf(es) == Concat([i \in 1..Len(es) |-> ExpectedLine(es[i])])

\* the entries the collector writes: those whose path has no tab or newline
Writable(es) == SelectSeq(es, LAMBDA e : ~Delimited(e.path))

\* the entry the collector is writing, if any
InHand ==
    IF collector.st = "write" THEN <<Entry(collector.path, collector.phash)>> ELSE <<>>

Running == pc \in {"par", "join", "exited"}

(***************************************************************************)
(* C13.  Only the collector writes to the file, and it completes the line  *)
(* of one entry before it takes the next: in every state the bytes written *)
(* in this run are the complete lines of the entries written so far,       *)
(* followed by the first bytes of at most one more line, the line of the   *)
(* entry the collector holds; bytes of two entries are never interleaved.  *)
(***************************************************************************)
C13_SingleWriter ==
    /\ [](Running =>
            /\ Appended \o Concat(collector.buf) = LinesOf(written \o InHand)
            /\ collector.st # "write" => collector.buf = <<>>)
    /\ [][/\ file' # file =>
                /\ collector.st = "write"
                /\ UNCHANGED <<workers, chan, todo, hashed, sent>>
          /\ (collector.st = "write" /\ collector'.st = "write") =>
                /\ collector'.path = collector.path
                /\ collector'.phash = collector.phash
                /\ written' = written]_vars

\* the collector is inside its second line while another result waits in
\* the channel
C13_Witness ==
    /\ pc = "par"
    /\ collector.st = "write"
    /\ Len(collector.buf) = 2
    /\ Len(written) = 1
    /\ chan # <<>>

(***************************************************************************)
(* C14.  The channel never holds more entries than its capacity (256 in    *)
(* the program, ChannelBound here); a worker that has a result while the   *)
(* channel is full keeps it and sends it only after the collector has      *)
(* taken an entry; no entry is lost: every entry sent is in the channel,   *)
(* in the collector's hand, written, or was skipped for its path.          *)
(***************************************************************************)
C14_BoundedBackpressure ==
    /\ [](Len(chan) <= ChannelBound)
    /\ [](Running =>
            /\ Len(chan) <= Len(sent)
            /\ chan = SubSeq(sent, Len(sent) - Len(chan) + 1, Len(sent))
            /\ Writable(sent) = written \o InHand \o Writable(chan))
    /\ [][/\ (Len(chan) = ChannelBound /\ pc' # "killed") =>
                /\ sent' = sent
                /\ \A w \in Workers : workers[w].st = "send" => workers'[w] = workers[w]
          /\ Len(sent') > Len(sent) =>
                (Len(chan) < ChannelBound /\ chan' = Append(chan, sent'[Len(sent')]))
          /\ (Running /\ pc' \in {"par", "join", "exited"} /\ Len(chan') < Len(chan)) =>
                (chan' = Tail(chan) /\ collector.st = "recv")]_vars

\* the channel is full and a worker waits with a result
C14_Witness ==
    /\ pc = "par"
    /\ Len(chan) = ChannelBound
    /\ \E w \in Workers : workers[w].st = "send"

(***************************************************************************)
(* C15.  The collector takes the entries in the order in which they        *)
(* entered the channel: the lines appended in a run are, in the file, in   *)
(* the order in which their results were sent, whatever the order of the   *)
(* paths in the candidate list.                                            *)
(***************************************************************************)
C15_AppendOrder ==
    Running =>
        /\ Len(written) <= Len(Writable(sent))
        /\ written = SubSeq(Writable(sent), 1, Len(written))
        /\ collector.st \in {"recv", "done"} =>
              Appended = LinesOf(SubSeq(Writable(sent), 1, Len(written)))
        /\ pc = "exited" => Appended = LinesOf(Writable(sent))

\* two results waited in the channel together, and the file has the line of
\* the last candidate before the line of the first
C15_Witness ==
    /\ pc = "exited"
    /\ input = <<PathA, PathS>>
    /\ Len(written) = 2
    /\ written[1].path = PathS
    /\ written[2].path = PathA

(***************************************************************************)
(* C16.  After read_result has returned the file changes only by writes at *)
(* the handle's offset, which complete one line of an entry after the      *)
(* other: no byte before the offset is changed or removed, that is no byte *)
(* of the recovered prefix and of the lines already appended; the file     *)
(* does not shrink, and it is not read again: the cache stays as it was    *)
(* read.                                                                   *)
(***************************************************************************)
C16_AppendOnly ==
    /\ [](Running =>
            /\ SubSeq(file, 1, PrefixLen(file0)) = SubSeq(file0, 1, PrefixLen(file0))
            /\ SubSeq(Appended, 1, Len(LinesOf(written))) = LinesOf(written)
            /\ cursor <= Len(file))
    /\ [][(pc \in {"par", "join"} /\ pc' # "killed") =>
            /\ cache' = cache
            /\ file0' = file0
            /\ cursor' >= cursor
            /\ Len(file') >= Len(file)
            /\ SubSeq(file', 1, cursor) = SubSeq(file, 1, cursor)
            /\ SubSeq(file', cursor' + 1, Len(file')) = SubSeq(file, cursor' + 1, Len(file))
            /\ written' # written =>
                  /\ written' = Append(written, Entry(collector.path, collector.phash))
                  /\ SubSeq(file', cursor' - Len(LinesOf(<<written'[Len(written')]>>)) + 1, cursor')
                        = LinesOf(<<written'[Len(written')]>>)]_vars

\* the second line of a run is being written inside the tail of the file
\* the run found
C16_Witness ==
    /\ pc \in {"par", "join"}
    /\ collector.st = "write"
    /\ Len(collector.buf) < 4
    /\ Len(written) = 1
    /\ cursor < Len(file0)

(***************************************************************************)
(* C17.  As claimed: started on a checkpoint file whose well-formed lines  *)
(* name pairwise distinct paths, after any sequence of runs, completed or  *)
(* killed and restarted, over any candidate lists, the file never holds    *)
(* two well-formed lines with the same path.                               *)
(* A line of the tail the code did not discard (C3) is not in the cache;   *)
(* its path is hashed and written again, before it.                        *)
(***************************************************************************)
C17_AsClaimed ==
    \A d, e \in LineEnds(file) :
        (/\ WellFormedLine(LineAt(file, d))
         /\ WellFormedLine(LineAt(file, e))
         /\ SamePath(PathField(LineAt(file, d)), PathField(LineAt(file, e)))) => d = e

\* a run has completed a line in front of a tail that holds a well-formed
\* line
C17_Witness ==
    /\ Running
    /\ Len(written) > 0
    /\ \E e \in LineEnds(file0) : e > PrefixLen(file0) /\ WellFormedLine(LineAt(file0, e))

(***************************************************************************)
(* C18.  read_result changes the handle's offset and nothing else of the   *)
(* file, neither its bytes nor its length; so a run whose work set is      *)
(* empty, or whose paths all fail or are skipped, leaves the file as it    *)
(* found it byte for byte, with the unterminated or malformed tail it had. *)
(***************************************************************************)
C18_LoadLeavesFile ==
    /\ [][(pc # "par" /\ pc' = "par") =>
            /\ file' = file
            /\ Len(file') = Len(file)
            /\ cursor' = PrefixLen(file)]_vars
    /\ []((Running /\ \A p \in images : ~Hashable(p) \/ Delimited(p)) =>
            /\ file = file0
            /\ written = <<>>)

\* a completed run on a file with a tail: one path failed, one was skipped
C18_Witness ==
    /\ pc = "exited"
    /\ PrefixLen(file0) < Len(file0)
    /\ PathE \in DOMAIN hashed
    /\ PathT \in PathsOf(sent)
    /\ file = file0

=============================================================================
